---- MODULE Spec2Model ----
(***************************************************************************)
(* Model of airflow/dags/ingestion/ask-astro-load.py: the DAG              *)
(* ask_astro_load_bulk.  A DAG run checks the Weaviate schema, branches on *)
(* its existence and on the number of 'Docs' objects, reads the frozen     *)
(* snapshots of seven sources, splits the documents into chunks and        *)
(* imports the chunks under a uuid derived from the row.                   *)
(***************************************************************************)
EXTENDS Integers, Sequences, FiniteSets, TLC

VARIABLES
    ti,          \* state of every task instance of the current DAG run
    tries,       \* try_number of every task instance of the current DAG run
    schemaOut,   \* XCom of check_schema: {} until pushed, then {TRUE} or {FALSE}
    branchOut,   \* XCom of recreate_schema_branch: {} until pushed, then {selection}
    selected,    \* XCom of check_object_count: {} until pushed, then {selection}
    lastQuery,   \* outcome of the latest count query of check_object_count
    splitOut,    \* XCom of split_data: {} until pushed, then {dataframe}
    schema,      \* Weaviate: the schema (class Docs) is present
    index,       \* Weaviate: the 'Docs' objects written from the snapshots, in insertion order
    preCount,    \* Weaviate: number of further 'Docs' objects, not derived from the snapshots
    files,       \* what the parquet files under include/data hold: see Snapshot
    faulty,      \* the task instance of this run whose attempts fail for outside reasons: {} or {x}
    run,         \* number of the current DAG run
    startCount,  \* number of 'Docs' objects when the current run was triggered
    writes,      \* number of objects the current run has sent to the index
    firstLoad,   \* {} until an import_data succeeds, then {set of uuids in the index right after it}
    loads        \* number of import_data attempts that have succeeded, over all runs

vars == <<ti, tries, schemaOut, branchOut, selected, lastQuery, splitOut, schema, index,
          preCount, files, faulty, run, startCount, writes, firstLoad, loads>>

-----------------------------------------------------------------------------
(* Bounds of the model *)

\* how many DAG runs are triggered one after the other
MaxRuns == 2
\* longest document content, in characters
MaxLen == 2
\* rows per request of the batch import ("batch_size": 1000), scaled down
BatchSize == 8
\* most messages of a slack archive, and latest ts of a message
MaxMsgs == 3

-----------------------------------------------------------------------------
(* Program constants *)

\* weaviate_doc_count['Docs']
weaviate_doc_count == 7307
\* default_args['retries']
retries == 3

-----------------------------------------------------------------------------
(* The task graph *)

ExtractTasks ==
    {"extract_github_markdown", "extract_github_rst", "extract_github_python",
     "extract_stack_overflow", "extract_slack", "extract_registry",
     "extract_github_issues"}

Tasks ==
    {"check_schema", "recreate_schema_branch", "create_schema", "check_object_count",
     "split_data", "import_data"} \cup ExtractTasks

\* number of mapped instances: the length of the list each task is expanded over
MapLen(t) ==
    CASE t = "extract_github_markdown" -> 2     \* markdown_docs_sources
      [] t = "extract_github_rst"      -> 1     \* rst_docs_sources
      [] t = "extract_github_issues"   -> 1     \* issues_docs_sources
      [] t = "extract_github_python"   -> 1     \* code_samples_sources
      [] t = "extract_stack_overflow"  -> 1     \* stackoverflow_tags
      [] t = "extract_slack"           -> 1     \* slack_channel_sources
      [] t = "extract_registry"        -> 1     \* http_json_sources
      [] OTHER                         -> 1

TIs == UNION {{<<t, i>> : i \in 0..(MapLen(t) - 1)} : t \in Tasks}

ExtractTIs == {x \in TIs : x[1] \in ExtractTasks}

\* Upstream with extract_registry left out of the arguments of split_data
Upstream_missing_registry(t) ==
    CASE t = "check_schema"           -> {}
      [] t = "recreate_schema_branch" -> {"check_schema"}
      [] t = "create_schema"          -> {"recreate_schema_branch"}
      [] t = "check_object_count"     -> {"recreate_schema_branch"}
      [] t = "split_data"             -> ExtractTasks \ {"extract_registry"}
      [] t = "import_data"            -> {"split_data"}
      [] OTHER                        -> {"create_schema", "check_object_count"}

\* Upstream without the line _create_schema >> [...extract tasks]
Upstream_no_create_edge(t) ==
    CASE t = "check_schema"           -> {}
      [] t = "recreate_schema_branch" -> {"check_schema"}
      [] t = "create_schema"          -> {"recreate_schema_branch"}
      [] t = "check_object_count"     -> {"recreate_schema_branch"}
      [] t = "split_data"             -> ExtractTasks
      [] t = "import_data"            -> {"split_data"}
      [] OTHER                        -> {"check_object_count"}

\* direct upstream tasks: the XComArg arguments and the >> lines
Upstream(t) ==
    CASE t = "check_schema"           -> {}
      [] t = "recreate_schema_branch" -> {"check_schema"}
      [] t = "create_schema"          -> {"recreate_schema_branch"}
      [] t = "check_object_count"     -> {"recreate_schema_branch"}
      [] t = "split_data"             -> ExtractTasks
      [] t = "import_data"            -> {"split_data"}
      [] OTHER                        -> {"create_schema", "check_object_count"}

Downstream(t) == {u \in Tasks : t \in Upstream(u)}

RECURSIVE Descendants(_)
Descendants(t) == Downstream(t) \cup UNION {Descendants(u) : u \in Downstream(t)}

\* trigger_rule with the extract tasks left at the default rule
trigger_rule_default(t) == "all_success"

trigger_rule(t) == IF t \in ExtractTasks THEN "none_failed" ELSE "all_success"

UpstreamTIs(t) == {x \in TIs : x[1] \in Upstream(t)}

Terminal == {"success", "failed", "skipped", "upstream_failed"}

\* RuleVerdict with a skipped upstream skipping the instance under every rule
RuleVerdict_skip_on_skipped(s, t) ==
    LET up == {s[x] : x \in UpstreamTIs(t)}
    IN  IF up \cap {"failed", "upstream_failed"} # {} THEN "upstream_failed"
        ELSE IF "skipped" \in up THEN "skipped"
        ELSE IF up \subseteq {"success"} THEN "run" ELSE "none"

\* the state the trigger rule of task t gives an instance that has not run, or
\* "none" while it has to wait, or "run" when the instance may be queued
RuleVerdict(s, t) ==
    LET up == {s[x] : x \in UpstreamTIs(t)}
    IN  IF up \cap {"failed", "upstream_failed"} # {} THEN "upstream_failed"
        ELSE IF trigger_rule(t) = "all_success"
             THEN IF "skipped" \in up THEN "skipped"
                  ELSE IF up \subseteq {"success"} THEN "run" ELSE "none"
             ELSE IF up \subseteq {"success", "skipped"} THEN "run" ELSE "none"

\* one pass of the scheduler over the instances that have not run
Pass(s) ==
    [x \in TIs |->
        IF s[x] = "none" /\ RuleVerdict(s, x[1]) \in {"upstream_failed", "skipped"}
        THEN RuleVerdict(s, x[1]) ELSE s[x]]

RECURSIVE Settle(_)
Settle(s) == LET p == Pass(s) IN IF p = s THEN s ELSE Settle(p)

\* a branch task that returned sel skips its direct downstream tasks that
\* are neither in sel nor downstream of a task of sel
SkipAllExcept(s, t, sel) ==
    LET keep == sel \cup UNION {Descendants(u) : u \in sel}
    IN  [x \in TIs |->
            IF x[1] \in Downstream(t) /\ x[1] \notin keep THEN "skipped" ELSE s[x]]

Runnable(x) ==
    /\ ti[x] \in {"none", "up_for_retry"}
    /\ RuleVerdict(ti, x[1]) = "run"

-----------------------------------------------------------------------------
(* Text.  A text is a sequence of characters: "a" is a letter, "1".."3" are *)
(* digits, "_" a blank, "N" a newline, "B" a backslash and "T" a piece of   *)
(* HTML markup (a tag or a comment) that renders as nothing.                *)

Chars == {"a", "_", "N", "B", "T"}

Digit(n) == CASE n = 1 -> "1" [] n = 2 -> "2" [] n = 3 -> "3" [] OTHER -> "a"

CharCode(c) ==
    CASE c = "a" -> 1 [] c = "_" -> 2 [] c = "N" -> 3 [] c = "B" -> 4 [] c = "T" -> 5
      [] c = "1" -> 6 [] c = "2" -> 7 [] c = "3" -> 8 [] OTHER -> 9

IsSpace(c) == c \in {"_", "N"}

RECURSIVE LStrip(_)
LStrip(s) == IF s # <<>> /\ IsSpace(Head(s)) THEN LStrip(Tail(s)) ELSE s

RECURSIVE RStrip(_)
RStrip(s) ==
    IF s # <<>> /\ IsSpace(s[Len(s)]) THEN RStrip(SubSeq(s, 1, Len(s) - 1)) ELSE s

\* str.strip()
Strip(s) == RStrip(LStrip(s))

\* str.replace(old, new) for a one-character old and a new of any length
RECURSIVE Replace(_, _, _)
Replace(s, old, new) ==
    IF s = <<>> THEN <<>>
    ELSE (IF Head(s) = old THEN new ELSE <<Head(s)>>) \o Replace(Tail(s), old, new)

\* the pieces of s between newlines
RECURSIVE SplitLines(_)
SplitLines(s) ==
    IF s = <<>> THEN << <<>> >>
    ELSE LET r == SplitLines(Tail(s))
         IN  IF Head(s) = "N" THEN << <<>> >> \o r
             ELSE << <<Head(s)>> \o Head(r) >> \o Tail(r)

\* RecursiveCharacterTextSplitter().split_documents([Document(page_content=x)]):
\* the text is cut at separators, every piece is stripped of surrounding
\* white space and a piece that is empty after stripping is dropped.  The
\* chunk size is scaled down so that every line is a chunk of its own.
split_documents(x) ==
    LET pieces == SplitLines(x)
        stripped == [i \in 1..Len(pieces) |-> Strip(pieces[i])]
    IN  SelectSeq(stripped, LAMBDA p : p # <<>>)

\* html2text.html2text(page_content): markup is rendered as nothing, text is
\* kept and the output is closed by an empty line
html2text(page_content) ==
    SelectSeq(page_content, LAMBDA c : c # "T") \o <<"N", "N">>

\* the content of an output row, from the page_content of its chunk
chunk_content(page_content) ==
    Replace(Replace(html2text(page_content), "N", <<"_">>), "B", <<>>)

-----------------------------------------------------------------------------
(* Dataframes: [cols |-> set of column names, rows |-> sequence of rows],  *)
(* a row being a function from cols to values.                              *)

RowCols == {"docSource", "sha", "docLink", "content"}

ColOrder == <<"docSource", "sha", "docLink", "content", "header", "doc_chunks">>

NaN(col) ==
    CASE col = "docSource" -> "NaN"
      [] col = "header"    -> "NaN"
      [] col = "docLink"   -> 0
      [] OTHER             -> <<>>

EmptyDF == [cols |-> {}, rows |-> <<>>]

\* pd.concat([a, b], axis=0, ignore_index=True)
Concat2(a, b) ==
    LET cols == a.cols \cup b.cols
        fill(r) == [c \in cols |-> IF c \in DOMAIN r THEN r[c] ELSE NaN(c)]
    IN  [cols |-> cols,
         rows |-> [i \in 1..(Len(a.rows) + Len(b.rows)) |->
                      IF i <= Len(a.rows) THEN fill(a.rows[i])
                      ELSE fill(b.rows[i - Len(a.rows)])]]

RECURSIVE Concat(_)
Concat(dfs) == IF dfs = <<>> THEN EmptyDF ELSE Concat2(Head(dfs), Concat(Tail(dfs)))

SourceCode(ds) ==
    CASE ds = "learn" -> 1 [] ds = "astro" -> 2 [] ds = "docs" -> 3
      [] ds = "code-samples" -> 4 [] ds = "stackoverflow" -> 5
      [] ds = "troubleshooting" -> 6 [] ds = "registry_cell_types" -> 7
      [] ds = "issues" -> 8 [] OTHER -> 0

HeaderCode(h) ==
    CASE h = "python" -> 1 [] h = "question" -> 2 [] h = "issue" -> 3 [] OTHER -> 0

\* str() of one value of a row, as a sequence of numbers
StrField(col, v) ==
    CASE col = "docSource" -> <<SourceCode(v)>>
      [] col = "header"    -> <<HeaderCode(v)>>
      [] col = "docLink"   -> <<v>>
      [] col = "sha"       -> <<Len(v)>> \o v
      [] OTHER             -> <<Len(v)>> \o [i \in 1..Len(v) |-> CharCode(v[i])]

RECURSIVE StrRow(_, _)
StrRow(r, k) ==
    IF k > Len(ColOrder) THEN <<>>
    ELSE (IF ColOrder[k] \in DOMAIN r THEN StrField(ColOrder[k], r[ColOrder[k]]) ELSE <<>>)
         \o StrRow(r, k + 1)

\* weaviate.util.generate_uuid5(identifier) of a row: the uuid5 of str(identifier),
\* taken as free of collisions, so it is the name string itself
generate_uuid5(identifier) == StrRow(identifier, 1)

\* generate_uuid5(identifier) of a text
generate_uuid5_text(text) == StrField("content", text)

-----------------------------------------------------------------------------
(* The snapshots *)

Inst(t, i) == <<t, i>>

\* the rows of df with column col set row by row to f(row)
WithColumn(df, col, f(_)) ==
    [cols |-> df.cols \cup {col},
     rows |-> [i \in 1..Len(df.rows) |->
                  [c \in df.cols \cup {col} |->
                      IF c = col THEN f(df.rows[i]) ELSE df.rows[i][c]]]]

GitDF(rows) == [cols |-> RowCols, rows |-> rows]

GitDoc(ds, sha, link, content) ==
    [docSource |-> ds, sha |-> <<sha>>, docLink |-> link, content |-> content]

\* a dataframe with one more column, of one value
Tagged(df, col, v) == WithColumn(df, col, LAMBDA r : v)

\* a dataframe without a column
Without(df, col) ==
    [cols |-> df.cols \ {col},
     rows |-> [i \in 1..Len(df.rows) |-> [c \in df.cols \ {col} |-> df.rows[i][c]]]]

Message(user, text, ts, thread_ts) ==
    [user |-> user, text |-> text, ts |-> ts, thread_ts |-> thread_ts,
     client_msg_id |-> ts, type |-> "message"]

SlackCols == {"user", "text", "ts", "thread_ts", "client_msg_id", "type"}

\* the parquet files: two documents of the first markdown source are free,
\* hdr is the set of extract tasks whose file has a 'header' column and slack
\* is the list of messages of the slack archive
Snapshot(d1, d2, hdr, slack) ==
    LET h(t, df, v) == IF t \in hdr THEN Tagged(df, "header", v) ELSE df
    IN  [x \in ExtractTIs |->
          CASE x = Inst("extract_github_markdown", 0) -> GitDF(<<d1, d2>>)
            [] x = Inst("extract_github_markdown", 1) ->
                 GitDF(<<GitDoc("astro", 1, 1, <<"a", "N", "a">>)>>)
            [] x[1] = "extract_github_rst" -> GitDF(<<GitDoc("docs", 1, 1, <<"a">>)>>)
            [] x[1] = "extract_github_python" ->
                 h(x[1], GitDF(<<GitDoc("code-samples", 1, 1, <<"a">>)>>), "python")
            [] x[1] = "extract_stack_overflow" ->
                 h(x[1], Without(GitDF(<<GitDoc("stackoverflow", 1, 1, <<"a">>)>>), "sha"),
                   "question")
            [] x[1] = "extract_github_issues" ->
                 h(x[1], Without(GitDF(<<GitDoc("issues", 1, 1, <<"a">>)>>), "sha"), "issue")
            [] x[1] = "extract_registry" ->
                 GitDF(<<GitDoc("registry_cell_types", 1, 1, <<"a">>)>>)
            [] OTHER -> [cols |-> SlackCols, rows |-> slack] ]

\* a slack archive: a reply in the thread of ts 1, the message that started
\* the thread, and the reply once more
SlackFile ==
    <<Message(1, <<"a">>, 2, 1), Message(2, <<"a">>, 1, 0), Message(1, <<"a">>, 2, 1)>>

HeaderTasks == {"extract_github_python", "extract_stack_overflow", "extract_github_issues"}

Texts(n) == UNION {[1..k -> Chars] : k \in 0..n}

\* the dataframe read from the parquet file of each mapped instance
snapshot == Snapshot(files.d1, files.d2, files.hdr, files.slack)

-----------------------------------------------------------------------------
(* The extract tasks: each returns the dataframe read from its parquet file *)

\* DataFrame.drop_duplicates(): the first of equal rows is kept
RECURSIVE DropDuplicates(_)
DropDuplicates(rows) ==
    IF rows = <<>> THEN <<>>
    ELSE LET init == DropDuplicates(SubSeq(rows, 1, Len(rows) - 1))
             last == rows[Len(rows)]
         IN  IF \E i \in 1..Len(init) : init[i] = last THEN init ELSE Append(init, last)

\* SortByTs leaving the rows in the order of the file
SortByTs_unsorted(rows) == rows

\* DataFrame.sort_values('ts')
RECURSIVE SortByTs(_)
SortByTs(rows) ==
    IF rows = <<>> THEN <<>>
    ELSE LET init == SortByTs(SubSeq(rows, 1, Len(rows) - 1))
             last == rows[Len(rows)]
             k == Cardinality({i \in 1..Len(init) : init[i].ts <= last.ts})
         IN  SubSeq(init, 1, k) \o <<last>> \o SubSeq(init, k + 1, Len(init))

\* the elements of a set of numbers in ascending order
RECURSIVE Ascending(_)
Ascending(S) ==
    IF S = {} THEN <<>>
    ELSE LET m == CHOOSE x \in S : \A y \in S : x <= y
         IN  <<m>> \o Ascending(S \ {m})

\* '\n'.join(texts)
RECURSIVE Join(_)
Join(texts) ==
    IF texts = <<>> THEN <<>>
    ELSE IF Len(texts) = 1 THEN texts[1]
    ELSE texts[1] \o <<"N">> \o Join(Tail(texts))

\* reply_md_format: "### [{ts}] <@{user}>\n\n{text}"
reply_md_format(ts, user, text) == <<"a", Digit(ts), "_", "a", Digit(user), "N", "N">> \o text

\* message_md_format: "# slack: {team_name}\n\n## {channel_name}\n\n{content}"
message_md_format(content) == <<"a", "N", "N", "a", "N", "N">> \o content

extract_github_markdown_ret(i) == snapshot[Inst("extract_github_markdown", i)]

extract_github_rst_ret(i) == snapshot[Inst("extract_github_rst", i)]

extract_github_python_ret(i) == snapshot[Inst("extract_github_python", i)]

extract_stack_overflow_ret(i) ==
    WithColumn(snapshot[Inst("extract_stack_overflow", i)], "sha", generate_uuid5)

extract_slack_ret(i) ==
    LET df == snapshot[Inst("extract_slack", i)]
        dedup == DropDuplicates(df.rows)
        filled == [k \in 1..Len(dedup) |->
                      [dedup[k] EXCEPT !.thread_ts = IF @ = 0 THEN dedup[k].ts ELSE @]]
        sorted == SortByTs(filled)
        keys == Ascending({sorted[k].thread_ts : k \in 1..Len(sorted)})
    IN  [cols |-> RowCols,
         rows |-> [k \in 1..Len(keys) |->
                      LET thread == SelectSeq(sorted, LAMBDA m : m.thread_ts = keys[k])
                          replies == [j \in 1..Len(thread) |->
                                         reply_md_format(thread[j].ts, thread[j].user,
                                                         thread[j].text)]
                          content == message_md_format(Join(replies))
                      IN  [docSource |-> "troubleshooting",
                           sha |-> generate_uuid5_text(content),
                           content |-> content,
                           docLink |-> keys[k]]]]

extract_github_issues_ret(i) ==
    WithColumn(snapshot[Inst("extract_github_issues", i)], "sha", generate_uuid5)

extract_registry_ret(i) == snapshot[Inst("extract_registry", i)]

\* the list of dataframes of the mapped instances of an extract task
Expand(t, f(_)) == [k \in 1..MapLen(t) |-> f(k - 1)]

-----------------------------------------------------------------------------
(* split_data *)

RECURSIVE Flatten(_)
Flatten(ss) == IF ss = <<>> THEN <<>> ELSE Head(ss) \o Flatten(Tail(ss))

\* FilterChunked without the filter
FilterChunked_none(rows) == rows

\* df[df['doc_chunks'].apply(lambda x: len(x))>0]
FilterChunked(rows) == SelectSeq(rows, LAMBDA r : Len(r.doc_chunks) > 0)

\* Explode keeping the first element of every list only
Explode_first(rows) ==
    [i \in 1..Len(rows) |->
        IF rows[i].doc_chunks = <<>>
        THEN [rows[i] EXCEPT !.doc_chunks = NaN("doc_chunks")]
        ELSE [rows[i] EXCEPT !.doc_chunks = rows[i].doc_chunks[1]]]

\* DataFrame.explode('doc_chunks'): one row per element of the list, and one
\* row holding NaN for an empty list
Explode(rows) ==
    Flatten([i \in 1..Len(rows) |->
        IF rows[i].doc_chunks = <<>>
        THEN << [rows[i] EXCEPT !.doc_chunks = NaN("doc_chunks")] >>
        ELSE [k \in 1..Len(rows[i].doc_chunks) |->
                 [rows[i] EXCEPT !.doc_chunks = rows[i].doc_chunks[k]]]])

\* the dataframe of lines 584-599: the seven sources concatenated
SplitInput ==
    LET md_df == Concat(Expand("extract_github_markdown", extract_github_markdown_ret))
        rst_df == Concat(Expand("extract_github_rst", extract_github_rst_ret))
        slack_df == Concat(Expand("extract_slack", extract_slack_ret))
        stackoverflow_df == Concat(Expand("extract_stack_overflow", extract_stack_overflow_ret))
        code_df == Concat(Expand("extract_github_python", extract_github_python_ret))
        issues_df == Concat(Expand("extract_github_issues", extract_github_issues_ret))
        reg_df == Concat(Expand("extract_registry", extract_registry_ret))
    IN  Concat(<<md_df, rst_df, slack_df, reg_df, code_df, stackoverflow_df, issues_df>>)

\* the exploded dataframe of line 613
Exploded(df) ==
    LET chunked == WithColumn(df, "doc_chunks", LAMBDA r : split_documents(r.content))
    IN  [cols |-> chunked.cols, rows |-> Explode(FilterChunked(chunked.rows))]

\* split_data raises: page_content of a NaN chunk (line 614), or a 'header'
\* column that is not there to drop (line 619)
split_data_raises(df) ==
    LET ex == Exploded(df)
    IN  \/ \E i \in 1..Len(ex.rows) : ex.rows[i].doc_chunks = NaN("doc_chunks")
        \/ "header" \notin df.cols

\* ReturnedCols with the 'header' column kept
ReturnedCols_keep_header(cols) == cols \ {"doc_chunks"}

\* the columns split_data returns
ReturnedCols(cols) == cols \ {"doc_chunks", "header"}

\* the dataframe split_data returns
split_data_ret(df) ==
    LET ex == Exploded(df)
        keep == ReturnedCols(ex.cols)
    IN  [cols |-> keep,
         rows |-> [i \in 1..Len(ex.rows) |->
                      [c \in keep |->
                          IF c = "content" THEN chunk_content(ex.rows[i].doc_chunks)
                          ELSE ex.rows[i][c]]]]

-----------------------------------------------------------------------------
(* import_data and the Weaviate batch import *)

\* RowUuid with a uuid that is drawn anew in every run
RowUuid_per_run(row) == <<run>> \o generate_uuid5(row)

\* df['uuid'] = df.apply(lambda x: generate_uuid5(x.to_dict()), axis=1)
RowUuid(row) == generate_uuid5(row)

\* import_data_ret with the uuid taken from the position of the row
import_data_ret_positional(md_docs) ==
    [i \in 1..Len(md_docs.rows) |-> [uuid |-> <<i>>, props |-> md_docs.rows[i]]]

\* the objects import_data hands to the import, one per row
import_data_ret(md_docs) ==
    [i \in 1..Len(md_docs.rows) |->
        [uuid |-> RowUuid(md_docs.rows[i]), props |-> md_docs.rows[i]]]

\* one object sent with its uuid ("uuid_column": "uuid"): an object of the
\* same uuid is replaced, otherwise the object is added
Upsert(ix, obj) ==
    IF \E i \in 1..Len(ix) : ix[i].uuid = obj.uuid
    THEN [i \in 1..Len(ix) |-> IF ix[i].uuid = obj.uuid THEN obj ELSE ix[i]]
    ELSE Append(ix, obj)

RECURSIVE ImportBatch(_, _)
ImportBatch(ix, objs) ==
    IF objs = <<>> THEN ix ELSE ImportBatch(Upsert(ix, Head(objs)), Tail(objs))

Uuids(ix) == {ix[i].uuid : i \in 1..Len(ix)}

\* the number of 'Docs' objects: {Aggregate { Docs { meta { count } } } }
Count == preCount + Len(index)

-----------------------------------------------------------------------------
(* The branch tasks *)

\* recreate_schema_branch_ret with the two branches swapped
recreate_schema_branch_swapped(schema_exists) ==
    IF schema_exists THEN {"create_schema"} ELSE {"check_object_count"}

\* recreate_schema_branch(schema_exists): the task ids it returns
recreate_schema_branch_ret(schema_exists) ==
    IF schema_exists THEN {"check_object_count"}
    ELSE IF ~schema_exists THEN {"create_schema"}
    ELSE {}

\* what the count query of check_object_count can come back with: a response
\* holding the count, an empty response, or an exception; status is the
\* status_code of the exception (0: it has no such attribute) and nographql
\* tells whether its message holds 'no graphql provider present'
Response(n) == [raised |-> FALSE, empty |-> FALSE, status |-> 200, nographql |-> FALSE, count |-> n]

EmptyResponse == [raised |-> FALSE, empty |-> TRUE, status |-> 200, nographql |-> FALSE, count |-> 0]

Exc(status, nographql) ==
    [raised |-> TRUE, empty |-> FALSE, status |-> status, nographql |-> nographql, count |-> 0]

NoQuery == [raised |-> FALSE, empty |-> TRUE, status |-> 0, nographql |-> FALSE, count |-> 0]

\* the answer of Weaviate: the count while a schema is present, and status 422
\* 'no graphql provider present' while there is none
Answer == IF schema THEN Response(Count) ELSE Exc(422, TRUE)

\* exceptions of other origins (no connection, server error, rejected query)
OtherExceptions == {Exc(0, FALSE), Exc(500, FALSE), Exc(422, FALSE)}

\* HandlerBinds without the test of the message
HandlerBinds_any_422(q) == q.status = 422

\* line 105: the handler binds response only for status 422 'no graphql provider present'
HandlerBinds(q) == q.status = 422 /\ q.nographql

\* check_object_count raises: e.status_code of an exception without the
\* attribute (line 105), or response read while unbound (line 108)
check_object_count_raises(q) ==
    q.raised /\ (q.status = 0 \/ ~HandlerBinds(q))

\* check_object_count_ret with one task id missing from the returned list
check_object_count_ret_partial(q, doc_count) ==
    IF ~q.raised /\ ~q.empty /\ q.count >= doc_count THEN {}
    ELSE ExtractTasks \ {"extract_registry"}

\* check_object_count_ret with > for >=
check_object_count_ret_strict(q, doc_count) ==
    IF ~q.raised /\ ~q.empty /\ q.count > doc_count THEN {} ELSE ExtractTasks

\* check_object_count_ret with = for >=
check_object_count_ret_equal(q, doc_count) ==
    IF ~q.raised /\ ~q.empty /\ q.count = doc_count THEN {} ELSE ExtractTasks

\* lines 108-119: the task ids check_object_count returns ({} for None)
check_object_count_ret(q, doc_count) ==
    IF ~q.raised /\ ~q.empty /\ q.count >= doc_count THEN {} ELSE ExtractTasks

-----------------------------------------------------------------------------
(* Task instance attempts *)

Finish(x, st, s) ==
    /\ ti' = Settle([s EXCEPT ![x] = st])
    /\ tries' = [tries EXCEPT ![x] = @ + 1]

\* AttemptFails with one more retry than default_args grants
AttemptFails_extra_try(x) ==
    Finish(x, IF tries[x] + 1 > retries + 1 THEN "failed" ELSE "up_for_retry", ti)

\* an attempt that raises: up for retry while retries are left, then failed
AttemptFails(x) ==
    Finish(x, IF tries[x] + 1 > retries THEN "failed" ELSE "up_for_retry", ti)

\* an attempt fails for a reason outside the task's code (a lost worker, a
\* file that cannot be read, an unreachable service); such failures hit one
\* task instance of a run
OutsideFault(x) ==
    /\ faulty \subseteq {x}
    /\ faulty' = {x}

weaviate == <<schema, index, preCount>>
xcoms == <<schemaOut, branchOut, selected, lastQuery, splitOut>>
history == <<run, startCount, writes, firstLoad, loads>>

check_schema ==
    LET x == Inst("check_schema", 0) IN
    /\ Runnable(x)
    /\ \/ /\ schemaOut' = {schema}
          /\ Finish(x, "success", ti)
          /\ UNCHANGED faulty
       \/ /\ OutsideFault(x)
          /\ AttemptFails(x)
          /\ UNCHANGED schemaOut
    /\ UNCHANGED <<branchOut, selected, lastQuery, splitOut, weaviate, files, history>>

recreate_schema_branch ==
    LET x == Inst("recreate_schema_branch", 0) IN
    /\ Runnable(x)
    /\ \/ \E schema_exists \in schemaOut :
            LET sel == recreate_schema_branch_ret(schema_exists) IN
            /\ branchOut' = {sel}
            /\ Finish(x, "success", SkipAllExcept(ti, x[1], sel))
            /\ UNCHANGED faulty
       \/ /\ OutsideFault(x)
          /\ AttemptFails(x)
          /\ UNCHANGED branchOut
    /\ UNCHANGED <<schemaOut, selected, lastQuery, splitOut, weaviate, files, history>>

\* WeaviateCreateSchemaOperator(existing='fail')
create_schema ==
    LET x == Inst("create_schema", 0) IN
    /\ Runnable(x)
    /\ \/ /\ ~schema
          /\ schema' = TRUE
          /\ Finish(x, "success", ti)
          /\ UNCHANGED faulty
       \/ /\ schema
          /\ AttemptFails(x)
          /\ UNCHANGED <<schema, faulty>>
       \/ /\ OutsideFault(x)
          /\ AttemptFails(x)
          /\ UNCHANGED schema
    /\ UNCHANGED <<xcoms, index, preCount, files, history>>

\* one attempt of check_object_count whose count query comes back with q
CountAttempt(x, q) ==
    /\ lastQuery' = q
    /\ IF check_object_count_raises(q)
       THEN AttemptFails(x) /\ UNCHANGED selected
       ELSE LET sel == check_object_count_ret(q, weaviate_doc_count) IN
            /\ selected' = {sel}
            /\ Finish(x, "success", SkipAllExcept(ti, x[1], sel))

check_object_count ==
    LET x == Inst("check_object_count", 0) IN
    /\ Runnable(x)
    /\ \/ /\ CountAttempt(x, Answer)
          /\ UNCHANGED faulty
       \/ /\ OutsideFault(x)
          /\ \E q \in OtherExceptions : CountAttempt(x, q)
    /\ UNCHANGED <<schemaOut, branchOut, splitOut, weaviate, files, history>>

\* one attempt of a mapped instance of an extract task: it reads its parquet file
Extract(x) ==
    /\ Runnable(x)
    /\ \/ /\ Finish(x, "success", ti)
          /\ UNCHANGED faulty
       \/ /\ OutsideFault(x)
          /\ AttemptFails(x)
    /\ UNCHANGED <<xcoms, weaviate, files, history>>

MapIndexes(t) == 0..(MapLen(t) - 1)

extract_github_markdown ==
    \E i \in MapIndexes("extract_github_markdown") : Extract(Inst("extract_github_markdown", i))

extract_github_rst ==
    \E i \in MapIndexes("extract_github_rst") : Extract(Inst("extract_github_rst", i))

extract_github_python ==
    \E i \in MapIndexes("extract_github_python") : Extract(Inst("extract_github_python", i))

extract_stack_overflow ==
    \E i \in MapIndexes("extract_stack_overflow") : Extract(Inst("extract_stack_overflow", i))

extract_slack ==
    \E i \in MapIndexes("extract_slack") : Extract(Inst("extract_slack", i))

extract_github_issues ==
    \E i \in MapIndexes("extract_github_issues") : Extract(Inst("extract_github_issues", i))

extract_registry ==
    \E i \in MapIndexes("extract_registry") : Extract(Inst("extract_registry", i))

split_data ==
    LET x == Inst("split_data", 0)
        df == SplitInput
        raises == split_data_raises(df)
    IN
    /\ Runnable(x)
    /\ \/ /\ ~raises
          /\ splitOut' = {split_data_ret(df)}
          /\ Finish(x, "success", ti)
          /\ UNCHANGED faulty
       \/ /\ raises
          /\ AttemptFails(x)
          /\ UNCHANGED <<splitOut, faulty>>
       \/ /\ OutsideFault(x)
          /\ AttemptFails(x)
          /\ UNCHANGED splitOut
    /\ UNCHANGED <<schemaOut, branchOut, selected, lastQuery, weaviate, files, history>>

\* the objects of the first k whole batches
Batches(objs, k) == SubSeq(objs, 1, IF k * BatchSize < Len(objs) THEN k * BatchSize ELSE Len(objs))

import_data ==
    LET x == Inst("import_data", 0) IN
    /\ Runnable(x)
    /\ \E md_docs \in splitOut :
         LET objs == import_data_ret(md_docs) IN
         \/ /\ index' = ImportBatch(index, objs)
            /\ writes' = writes + Len(objs)
            /\ firstLoad' = IF firstLoad = {} THEN {Uuids(index')} ELSE firstLoad
            /\ loads' = loads + 1
            /\ Finish(x, "success", ti)
            /\ UNCHANGED faulty
         \/ /\ OutsideFault(x)
            /\ \E k \in 0..(Len(objs) \div BatchSize) :
                 /\ k * BatchSize < Len(objs) \/ k = 0
                 /\ index' = ImportBatch(index, Batches(objs, k))
                 /\ writes' = writes + Len(Batches(objs, k))
            /\ AttemptFails(x)
            /\ UNCHANGED <<firstLoad, loads>>
    \* a class that is missing is created on import (auto-schema)
    /\ schema' = (schema \/ index' # <<>>)
    /\ UNCHANGED <<xcoms, preCount, files, run, startCount>>

-----------------------------------------------------------------------------
(* The environment: DAG runs are triggered by hand (schedule_interval=None), *)
(* and the Weaviate instance may lose its schema and its objects.            *)

AllDone == \A x \in TIs : ti[x] \in Terminal

FreshRun ==
    /\ ti = [x \in TIs |-> "none"]
    /\ tries = [x \in TIs |-> 0]
    /\ schemaOut = {}
    /\ branchOut = {}
    /\ selected = {}
    /\ lastQuery = NoQuery
    /\ splitOut = {}
    /\ faulty = {}
    /\ writes = 0

trigger_dag ==
    /\ AllDone
    /\ run < MaxRuns
    /\ ti' = [x \in TIs |-> "none"]
    /\ tries' = [x \in TIs |-> 0]
    /\ schemaOut' = {}
    /\ branchOut' = {}
    /\ selected' = {}
    /\ lastQuery' = NoQuery
    /\ splitOut' = {}
    /\ faulty' = {}
    /\ writes' = 0
    /\ run' = run + 1
    /\ startCount' = Count
    /\ UNCHANGED <<weaviate, files, firstLoad, loads>>

\* the instance is wiped between the schema check and the count query, which
\* is where check_object_count expects 'no graphql provider present'
weaviate_reset ==
    /\ schema
    /\ schemaOut = {TRUE}
    /\ ti[Inst("check_object_count", 0)] \in {"none", "up_for_retry"}
    /\ schema' = FALSE
    /\ index' = <<>>
    /\ preCount' = 0
    /\ UNCHANGED <<ti, tries, xcoms, files, faulty, history>>

-----------------------------------------------------------------------------
(* The DAG runs *)

\* the files of the DAG runs
DagFiles ==
    {[d1 |-> GitDoc("learn", 1, 1, <<"a">>), d2 |-> GitDoc("learn", 1, 1, <<"a">>),
      hdr |-> HeaderTasks, slack |-> SlackFile]}

Init ==
    /\ FreshRun
    /\ files \in DagFiles
    /\ schema \in BOOLEAN
    /\ preCount \in {0, weaviate_doc_count - 2, weaviate_doc_count}
    /\ preCount > 0 => schema
    /\ index = <<>>
    /\ run = 1
    /\ startCount = preCount
    /\ firstLoad = {}
    /\ loads = 0

Next ==
    \/ check_schema
    \/ recreate_schema_branch
    \/ create_schema
    \/ check_object_count
    \/ extract_github_markdown
    \/ extract_github_rst
    \/ extract_github_python
    \/ extract_stack_overflow
    \/ extract_slack
    \/ extract_github_issues
    \/ extract_registry
    \/ split_data
    \/ import_data
    \/ trigger_dag
    \/ weaviate_reset

Spec == Init /\ [][Next]_vars

-----------------------------------------------------------------------------
(* One DAG run under a scheduler that keeps running the task instances that *)
(* are ready; whether the Weaviate instance is wiped is up to the           *)
(* environment                                                              *)

\* one attempt of a task instance upstream of split_data
GateOrExtractAttempt ==
    \/ check_schema
    \/ recreate_schema_branch
    \/ create_schema
    \/ check_object_count
    \/ extract_github_markdown
    \/ extract_github_rst
    \/ extract_github_python
    \/ extract_stack_overflow
    \/ extract_slack
    \/ extract_github_issues
    \/ extract_registry

\* one attempt of a task instance of the run
TaskAttempt ==
    \/ GateOrExtractAttempt
    \/ split_data
    \/ import_data

\* a task instance that is ready is attempted in the end.  For split_data and
\* for import_data weak fairness is written out: the action is enabled
\* exactly when its instance is ready, and its steps are the steps that add
\* a try to the instance
Fairness ==
    /\ WF_vars(GateOrExtractAttempt)
    /\ \/ []<>(~Runnable(Inst("split_data", 0)))
       \/ []<><<tries'[Inst("split_data", 0)] = tries[Inst("split_data", 0)] + 1>>_vars
    /\ \/ []<>(~Runnable(Inst("import_data", 0)))
       \/ []<><<tries'[Inst("import_data", 0)] = tries[Inst("import_data", 0)] + 1>>_vars

\* a run triggered on an instance without objects, or with as many as the target
InitFair == Init /\ preCount \in {0, weaviate_doc_count}

NextFair ==
    \/ TaskAttempt
    \/ weaviate_reset

SpecFair == InitFair /\ [][NextFair]_vars /\ Fairness

-----------------------------------------------------------------------------
(* split_data and import_data over the documents the files may hold: the   *)
(* run has reached the point where every extract instance has succeeded    *)

\* the files: the first document is free, the second repeats it or differs,
\* and any of the sources that may carry a 'header' column does
DataFiles ==
    {[d1 |-> GitDoc("learn", 1, 1, c),
      d2 |-> IF dup THEN GitDoc("learn", 1, 1, c) ELSE GitDoc("learn", 2, 2, <<"a", "N", "T">>),
      hdr |-> hdr, slack |-> SlackFile] :
        c \in Texts(MaxLen), dup \in BOOLEAN, hdr \in SUBSET HeaderTasks}

InitData ==
    /\ ti = [x \in TIs |->
                CASE x[1] = "create_schema" -> "skipped"
                  [] x[1] \in {"split_data", "import_data"} -> "none"
                  [] OTHER -> "success"]
    /\ tries = [x \in TIs |->
                   IF x[1] \in {"create_schema", "split_data", "import_data"} THEN 0 ELSE 1]
    /\ schemaOut = {TRUE}
    /\ branchOut = {{"check_object_count"}}
    /\ selected = {ExtractTasks}
    /\ lastQuery = Response(0)
    /\ splitOut = {}
    /\ faulty = {}
    /\ writes = 0
    /\ files \in DataFiles
    /\ schema = TRUE
    /\ preCount = 0
    /\ index = <<>>
    /\ run = 1
    /\ startCount = 0
    /\ firstLoad = {}
    /\ loads = 0

NextData ==
    \/ split_data
    \/ import_data

SpecData == InitData /\ [][NextData]_vars

-----------------------------------------------------------------------------
(* extract_slack over the messages the slack archive may hold: the run has *)
(* reached the point where check_object_count has selected the extracts    *)

\* the messages: ts is the time of the message, thread_ts the ts of the
\* message that started its thread, or 0 (NaN) for a message outside threads
SlackMessages ==
    {Message(1, <<"a">>, ts, thread_ts) : ts \in 1..MaxMsgs, thread_ts \in 0..(MaxMsgs - 1)}

SlackFiles ==
    {[d1 |-> GitDoc("learn", 1, 1, <<"a">>), d2 |-> GitDoc("learn", 1, 1, <<"a">>),
      hdr |-> HeaderTasks, slack |-> msgs] :
        msgs \in UNION {[1..n -> SlackMessages] : n \in 0..MaxMsgs}}

InitSlack ==
    /\ ti = [x \in TIs |->
                CASE x[1] = "create_schema" -> "skipped"
                  [] x[1] \in ExtractTasks \cup {"split_data", "import_data"} -> "none"
                  [] OTHER -> "success"]
    /\ tries = [x \in TIs |->
                   IF x[1] \in ExtractTasks \cup {"create_schema", "split_data", "import_data"}
                   THEN 0 ELSE 1]
    /\ schemaOut = {TRUE}
    /\ branchOut = {{"check_object_count"}}
    /\ selected = {ExtractTasks}
    /\ lastQuery = Response(0)
    /\ splitOut = {}
    /\ faulty = {}
    /\ writes = 0
    /\ files \in SlackFiles
    /\ schema = TRUE
    /\ preCount = 0
    /\ index = <<>>
    /\ run = 1
    /\ startCount = 0
    /\ firstLoad = {}
    /\ loads = 0

NextSlack == extract_slack

SpecSlack == InitSlack /\ [][NextSlack]_vars

-----------------------------------------------------------------------------
(* Properties *)

CreateSchema == Inst("create_schema", 0)
CheckObjectCount == Inst("check_object_count", 0)
RecreateSchemaBranch == Inst("recreate_schema_branch", 0)
SplitData == Inst("split_data", 0)
ImportData == Inst("import_data", 0)

\* the task instances of the load: the extracts, split_data and import_data
LoadTIs == ExtractTIs \cup {SplitData, ImportData}

Executed(x) == tries[x] > 0

Waiting(x) == ti[x] \in {"none", "up_for_retry"}

AllExtracted == \A x \in ExtractTIs : ti[x] = "success"

\* the latest count query came back with a count
CountReported == ~lastQuery.raised /\ ~lastQuery.empty

\* C1: in a run where the schema exists and the count query reports a count of
\* 'Docs' objects at or above weaviate_doc_count['Docs'], check_object_count
\* selects no task and no extract instance, split_data or import_data executes
C1_NoLoadAtTarget ==
    (schemaOut = {TRUE} /\ CountReported /\ lastQuery.count >= weaviate_doc_count)
        => /\ selected = {{}}
           /\ \A x \in LoadTIs : ~Executed(x) /\ ti[x] = "skipped"

C1_Witness ==
    /\ schemaOut = {TRUE}
    /\ CountReported
    /\ lastQuery.count = weaviate_doc_count
    /\ AllDone

BelowTarget == schemaOut = {TRUE} /\ CountReported /\ lastQuery.count < weaviate_doc_count

C3_SchemaGate ==
    /\ Executed(CreateSchema) => schemaOut = {FALSE}
    /\ ~(Executed(CreateSchema) /\ Executed(CheckObjectCount))
    /\ ti[RecreateSchemaBranch] = "success"
        => /\ branchOut \in {{{"create_schema"}}, {{"check_object_count"}}}
           /\ schemaOut = {FALSE}
                => /\ ti[CheckObjectCount] = "skipped"
                   /\ Executed(CreateSchema) \/ Runnable(CreateSchema)
           /\ schemaOut = {TRUE}
                => /\ ti[CreateSchema] = "skipped"
                   /\ Executed(CheckObjectCount) \/ Runnable(CheckObjectCount)
           /\ AllDone
                => /\ Executed(CreateSchema) # Executed(CheckObjectCount)
                   /\ Executed(CreateSchema) <=> schemaOut = {FALSE}

C3_Witness ==
    /\ AllDone
    /\ ti[RecreateSchemaBranch] = "success"
    /\ ti[CreateSchema] = "success"

\* C4 as stated: whenever the count query raised, the attempt of
\* check_object_count did not fail and selected the seven extract tasks
C4_Original ==
    lastQuery.raised
        => /\ ti[CheckObjectCount] = "success"
           /\ selected = {ExtractTasks}

\* C4 amended: an exception of the count query with status_code 422 and the
\* message 'no graphql provider present' is caught and taken as "index not
\* yet created": the attempt succeeds and selects the seven extract tasks,
\* none of which is skipped; after any other exception the attempt fails
C4_CaughtOnlyNoGraphql ==
    /\ (lastQuery.raised /\ lastQuery.status = 422 /\ lastQuery.nographql)
        => /\ ti[CheckObjectCount] = "success"
           /\ selected = {ExtractTasks}
           /\ \A x \in ExtractTIs : ti[x] \notin {"skipped", "upstream_failed"}
    /\ (lastQuery.raised /\ ~(lastQuery.status = 422 /\ lastQuery.nographql))
        => /\ ti[CheckObjectCount] \in {"up_for_retry", "failed"}
           /\ selected = {}

C4_Witness ==
    /\ lastQuery.raised
    /\ lastQuery.status = 422
    /\ lastQuery.nographql
    /\ ti[ImportData] = "success"

C6_FanIn ==
    /\ Executed(SplitData) => AllExtracted
    /\ Executed(ImportData) => ti[SplitData] = "success"
    /\ (\E x \in ExtractTIs : ti[x] = "failed")
        => /\ ~Executed(SplitData)
           /\ ~Executed(ImportData)
           /\ ti[SplitData] = "upstream_failed"
           /\ ti[ImportData] = "upstream_failed"
           /\ writes = 0

C6_Witness ==
    /\ AllDone
    /\ \E x \in ExtractTIs : ti[x] = "failed"
    /\ \E x \in ExtractTIs : ti[x] = "success"

\* C7: a run triggered while the index holds at least weaviate_doc_count['Docs']
\* objects, the index keeping them, executes no extract instance, no
\* split_data and no import_data, writes nothing to the index, and is never
\* stuck before all its task instances are finished
C7_NoReload ==
    (startCount >= weaviate_doc_count /\ Count >= weaviate_doc_count)
        => /\ \A x \in LoadTIs : ~Executed(x)
           /\ writes = 0
           /\ Count = startCount
           /\ ~AllDone => \E x \in TIs : Runnable(x)

C7_Witness ==
    /\ run = 2
    /\ loads = 1
    /\ startCount >= weaviate_doc_count
    /\ ti[CheckObjectCount] = "success"
    /\ AllDone

\* C8: after every import_data that succeeds the index holds the uuids it
\* held after the first one, each once: loading the same snapshots again
\* adds no object
C8_Idempotent ==
    ti[ImportData] = "success"
        => /\ Uuids(index) \in firstLoad
           /\ Cardinality(Uuids(index)) = Len(index)

C8_Witness ==
    /\ loads = 2
    /\ ti[ImportData] = "success"
    /\ index # <<>>

\* C9: every row split_data returns, and every object imported from it, has
\* a content of at least one character; a document that yields no chunk
\* leaves no row and does not make split_data fail
C9_NonEmptyContent ==
    /\ \A df \in splitOut : \A i \in 1..Len(df.rows) : Len(df.rows[i].content) > 0
    /\ \A i \in 1..Len(index) : Len(index[i].props.content) > 0
    /\ (Executed(SplitData) /\ faulty = {} /\ files.hdr # {}) => ti[SplitData] = "success"
    /\ (split_documents(files.d1.content) = <<>> /\ files.d2 # files.d1)
        => \A df \in splitOut : \A i \in 1..Len(df.rows) :
              ~(df.rows[i].docSource = "learn" /\ df.rows[i].sha = files.d1.sha)

C9_Witness ==
    /\ files.d1.content # <<>>
    /\ split_documents(files.d1.content) = <<>>
    /\ files.d2 # files.d1
    /\ ti[ImportData] = "success"
    /\ index # <<>>

\* C10: every row split_data returns has exactly the columns docSource, sha,
\* docLink and content, whichever sources supplied a header
C10_FlatShape ==
    /\ \A df \in splitOut :
          /\ df.cols = RowCols
          /\ \A i \in 1..Len(df.rows) : DOMAIN df.rows[i] = {"docSource", "sha", "docLink", "content"}
    /\ \A i \in 1..Len(index) : DOMAIN index[i].props = {"docSource", "sha", "docLink", "content"}

C10_Witness ==
    /\ splitOut # {}
    /\ files.hdr = {"extract_github_python"}
    /\ \E df \in splitOut : Len(df.rows) > 0

\* C11: in a run where check_schema reported no schema and create_schema has
\* succeeded, check_object_count is skipped and no count query is made; no
\* extract instance is skipped or upstream_failed, each one is attempted, and
\* split_data and import_data follow as in any load
C11_LoadAfterCreateSchema ==
    (schemaOut = {FALSE} /\ ti[CreateSchema] = "success")
        => /\ ti[CheckObjectCount] = "skipped"
           /\ ~Executed(CheckObjectCount)
           /\ lastQuery = NoQuery
           /\ selected = {}
           /\ \A x \in ExtractTIs :
                /\ ti[x] \notin {"skipped", "upstream_failed"}
                /\ Waiting(x) => Runnable(x)
           /\ AllDone => \A x \in ExtractTIs : Executed(x)
           /\ AllExtracted
                => /\ ti[SplitData] \notin {"skipped", "upstream_failed"}
                   /\ Waiting(SplitData) => Runnable(SplitData)
           /\ ti[SplitData] = "success"
                => /\ ti[ImportData] \notin {"skipped", "upstream_failed"}
                   /\ Waiting(ImportData) => Runnable(ImportData)

C11_Witness ==
    /\ schemaOut = {FALSE}
    /\ ti[CreateSchema] = "success"
    /\ ti[CheckObjectCount] = "skipped"
    /\ ti[ImportData] = "success"
    /\ AllDone

\* C12: an extract instance is attempted only when recreate_schema_branch has
\* succeeded and either create_schema has succeeded or check_object_count has
\* succeeded and selected its task; once create_schema or check_object_count
\* has failed, no extract instance, split_data or import_data is attempted
C12_GateBeforeExtract ==
    /\ \A x \in ExtractTIs :
         Executed(x)
            => /\ ti[RecreateSchemaBranch] = "success"
               /\ \/ ti[CreateSchema] = "success"
                  \/ /\ ti[CheckObjectCount] = "success"
                     /\ \E sel \in selected : x[1] \in sel
    /\ (ti[CreateSchema] = "failed" \/ ti[CheckObjectCount] = "failed")
        => \A x \in LoadTIs : ~Executed(x) /\ ti[x] = "upstream_failed"

C12_Witness ==
    /\ ti[RecreateSchemaBranch] = "success"
    /\ ti[CreateSchema] = "failed"
    /\ AllDone

\* C13: check_object_count returns no task id or all seven, whatever the count
\* query came back with; in every state either none or all of the extract
\* tasks have been skipped, all their mapped instances alike
C13_AllOrNothing ==
    /\ \A q \in {Response(n) : n \in {0, weaviate_doc_count - 1, weaviate_doc_count,
                                       weaviate_doc_count + 1}}
                   \cup {EmptyResponse, Exc(422, TRUE)} :
         \A doc_count \in {0, weaviate_doc_count} :
            check_object_count_ret(q, doc_count) \in {{}, ExtractTasks}
    /\ selected \subseteq {{}, ExtractTasks}
    /\ {x \in ExtractTIs : ti[x] = "skipped"} \in {{}, ExtractTIs}
    /\ selected = {ExtractTasks} => \A x \in ExtractTIs : ti[x] # "skipped"
    /\ selected = {{}} => \A x \in ExtractTIs : ti[x] = "skipped"

C13_Witness ==
    /\ ti[CheckObjectCount] = "success"
    /\ selected = {ExtractTasks}
    /\ lastQuery = Response(weaviate_doc_count - 2)
    /\ AllExtracted

\* the documents of df, each repeated once per chunk the splitter cuts its
\* content into
ChunkParents(df) ==
    Flatten([i \in 1..Len(df.rows) |->
                LET doc == df.rows[i]
                    k == Len(split_documents(doc.content))
                IN  [n \in 1..k |-> doc]])

RECURSIVE SumChunks(_)
SumChunks(rows) ==
    IF rows = <<>> THEN 0
    ELSE Len(split_documents(Head(rows).content)) + SumChunks(Tail(rows))

\* C14: the dataframe split_data returns has one row per chunk: the number of
\* rows is the sum over the input documents of all seven sources of their
\* numbers of chunks, and the rows of a document of k chunks are k rows in a
\* run, each with the docSource, sha and docLink of the document
C14_OneRowPerChunk ==
    splitOut # {} =>
        LET input == SplitInput
            parents == ChunkParents(input)
            total == SumChunks(input.rows)
        IN  \A out \in splitOut :
                /\ Len(out.rows) = total
                /\ Len(out.rows) = Len(parents)
                /\ \A i \in 1..Len(out.rows) :
                      /\ out.rows[i].docSource = parents[i].docSource
                      /\ out.rows[i].sha = parents[i].sha
                      /\ out.rows[i].docLink = parents[i].docLink

C14_Witness ==
    /\ ti[SplitData] = "success"
    /\ Len(split_documents(files.d2.content)) = 2
    /\ split_documents(files.d1.content) = <<>>
    /\ LET input == SplitInput
       IN  \E out \in splitOut : Len(out.rows) > Len(input.rows)

ExtractSlack == Inst("extract_slack", 0)

\* the thread a message of the archive belongs to
ThreadKey(m) == IF m.thread_ts = 0 THEN m.ts ELSE m.thread_ts

\* the ts of the messages of M in ascending order, one per message
RECURSIVE TsAscending(_, _)
TsAscending(M, t) ==
    IF t > MaxMsgs THEN <<>>
    ELSE [k \in 1..Cardinality({m \in M : m.ts = t}) |-> t] \o TsAscending(M, t + 1)

\* C15: the dataframe extract_slack returns has one row per thread, a thread
\* being the messages of one thread_ts, or of one ts for messages without
\* thread_ts; the content of the row holds each message of the thread once,
\* however often the archive repeats it, in ascending order of ts
C15_OneRowPerThread ==
    ti[ExtractSlack] = "success" =>
        LET out == extract_slack_ret(0)
            msgs == {files.slack[i] : i \in 1..Len(files.slack)}
            keys == {ThreadKey(m) : m \in msgs}
            expected(key) ==
                LET ts == TsAscending({m \in msgs : ThreadKey(m) = key}, 1)
                IN  message_md_format(
                        Join([k \in 1..Len(ts) |-> reply_md_format(ts[k], 1, <<"a">>)]))
        IN  /\ Len(out.rows) = Cardinality(keys)
            /\ {out.rows[i].docLink : i \in 1..Len(out.rows)} = keys
            /\ \A i \in 1..Len(out.rows) :
                  /\ out.rows[i].content = expected(out.rows[i].docLink)
                  /\ out.rows[i].docSource = "troubleshooting"

C15_Witness ==
    /\ ti[ExtractSlack] = "success"
    /\ Len(files.slack) = 3
    /\ files.slack[1] = files.slack[3]
    /\ files.slack[1].ts > files.slack[2].ts
    /\ ThreadKey(files.slack[1]) = ThreadKey(files.slack[2])
    /\ files.slack[2].thread_ts = 0

\* C16: no task instance is attempted more than retries + 1 = 4 times, it is
\* up for retry only while retries are left and failed only after its fourth
\* attempt; and a DAG run comes to the point where each of its task instances
\* is success, failed, skipped or upstream_failed
C16_RunTerminates ==
    /\ [](\A x \in TIs :
            /\ tries[x] <= retries + 1
            /\ ti[x] = "up_for_retry" => tries[x] \in 1..retries
            /\ ti[x] = "failed" => tries[x] = retries + 1)
    /\ (~AllDone) ~> AllDone

C16_Witness ==
    /\ AllDone
    /\ ti[SplitData] = "failed"
    /\ tries[SplitData] = retries + 1

====
